---- MODULE Spec2Model ----
(***************************************************************************)
(* The trivia API (backend/flaskr/__init__.py): a question store, the      *)
(* paginator, and one action per request handler.  A request is handled    *)
(* atomically (one request at a time); the handler's response is kept in   *)
(* resp until it is delivered, after which the next request is accepted.   *)
(***************************************************************************)
EXTENDS Integers, Sequences, FiniteSets, TLC

VARIABLES
    questions,    \* the Question table, in the order Question.query.all() lists it
    categories,   \* the Category table (read-only for every handler)
    nextId,       \* the identity counter of the Question table
    created,      \* number of successful inserts so far (bounds the model only)
    lastCreated,  \* the 'created' id of the latest create response, 0 if none
    req,          \* the request being answered, NoReq when the server is idle
    resp          \* the response to req, NoResp when the server is idle

vars == <<questions, categories, nextId, created, lastCreated, req, resp>>

----------------------------------------------------------------------------
(* Bounds of the model *)

MaxSeed == 21        \* questions in the store at start: 0 .. MaxSeed
MaxCreates == 1      \* successful POST /questions creations in one behaviour
MaxDelId == 2        \* DELETE /questions/<id> is requested for id in 0 .. MaxDelId
MaxPage == 3         \* ?page=n is requested for n in -1 .. MaxPage
MaxQuizId == 3       \* ids of the quiz stores and of previous_questions: 1 .. MaxQuizId
MaxPrev == 3         \* length of previous_questions: 0 .. MaxPrev

(* Program constants *)

QUESTIONS_PER_PAGE == 10

----------------------------------------------------------------------------
(* Values *)

\* Texts are sequences of characters; the empty text is <<>>.
TextTaj == <<"T", "a", "j">>
TextCat == <<"c", "a", "t">>
TextAns == <<"o", "k">>
TermTA == <<"t", "A">>
TermX == <<"x">>

SeedCategories ==
    << [id |-> 1, type |-> "Science"], [id |-> 2, type |-> "Art"] >>

CategoryIds == {1, 2}
UnknownCategory == 400

\* The seed question with id i.
SeedQuestion(i) ==
    [id |-> i,
     question |-> IF i % 3 = 0 THEN TextTaj ELSE TextCat,
     answer |-> TextAns,
     category |-> (i % 2) + 1,
     difficulty |-> (i % 5) + 1]

SeedStore(n) == [i \in 1..n |-> SeedQuestion(i)]

Ids(qs) == {qs[i].id : i \in 1..Len(qs)}

Min(a, b) == IF a < b THEN a ELSE b
Max(a, b) == IF a > b THEN a ELSE b

----------------------------------------------------------------------------
(* The store (models.py): Question.format, insert, delete, queries *)

\* Question.format(): the dictionary of the row's five fields.
Format(q) ==
    [id |-> q.id, question |-> q.question, answer |-> q.answer,
     category |-> q.category, difficulty |-> q.difficulty]

\* Question(...).insert(): the row gets the next identity and is appended.
Insert(qs, id, q, a, d, c) ==
    Append(qs, [id |-> id, question |-> q, answer |-> a,
                category |-> c, difficulty |-> d])

\* question.delete(): the row with that id leaves the table.
Delete(qs, id) == SelectSeq(qs, LAMBDA q : q.id # id)

\* Question.query.filter_by(category=c).all()
FilterByCategory(qs, c) == SelectSeq(qs, LAMBDA q : q.category = c)

\* Question.query.order_by(Question.id).all(): selection sort on id.
RECURSIVE OrderById(_)
OrderById(qs) ==
    IF Len(qs) = 0 THEN <<>>
    ELSE LET m == CHOOSE i \in 1..Len(qs) :
                    \A j \in 1..Len(qs) : qs[i].id <= qs[j].id
         IN <<qs[m]>> \o OrderById(SubSeq(qs, 1, m - 1) \o SubSeq(qs, m + 1, Len(qs)))

\* ILIKE '%term%': case-insensitive substring match.
Lower(c) ==
    CASE c = "T" -> "t"
      [] c = "A" -> "a"
      [] c = "C" -> "c"
      [] c = "J" -> "j"
      [] c = "X" -> "x"
      [] OTHER -> c

LowerText(t) == [i \in 1..Len(t) |-> Lower(t[i])]

ILike(text, term) ==
    \E k \in 0..(Len(text) - Len(term)) :
        SubSeq(LowerText(text), k + 1, k + Len(term)) = LowerText(term)

\* Question.query.filter(Question.question.ilike(f'%{search_term}%')).all()
FilterILike(qs, term) == SelectSeq(qs, LAMBDA q : ILike(q.question, term))

----------------------------------------------------------------------------
(* Error handlers: abort(code) is answered with the handler's JSON body *)

bad_request ==
    [status |-> 400, success |-> FALSE, error |-> 400, message |-> "Bad Request"]

not_found ==
    [status |-> 404, success |-> FALSE, error |-> 404, message |-> "Not Found"]

unprocessable ==
    [status |-> 422, success |-> FALSE, error |-> 422, message |-> "Unprocessable"]

server_error ==
    [status |-> 500, success |-> FALSE, error |-> 500,
     message |-> "Internal Server Error"]

ErrorBody(code) ==
    CASE code = 400 -> bad_request
      [] code = 404 -> not_found
      [] code = 422 -> unprocessable
      [] OTHER -> server_error

\* The outcome of a block of handler code: it returns a value or it raises
\* (abort(code) raises the HTTPException of that code).
Return(v) == [kind |-> "return", value |-> v]
Abort(code) == [kind |-> "raise", code |-> code]

----------------------------------------------------------------------------
(* paginate_questions *)

\* request.args.get('page', 1, type=int): the argument is absent, or a text
\* int() rejects, or an integer.
PageAbsent == [kind |-> "absent", n |-> 0]
PageText == [kind |-> "text", n |-> 0]
PageInt(n) == [kind |-> "int", n |-> n]

PageArg(arg) == IF arg.kind = "int" THEN arg.n ELSE 1

PageStartOffByOne(page) == page * QUESTIONS_PER_PAGE
PageStart(page) == (page - 1) * QUESTIONS_PER_PAGE

PageEnd(start) == start + QUESTIONS_PER_PAGE

\* Python's s[start:end]: a negative index counts from the end, and both
\* indexes are clamped to 0 .. len(s).
SliceIndex(i, len) == IF i < 0 THEN Max(len + i, 0) ELSE Min(i, len)

PySlice(s, start, end) ==
    SubSeq(s, SliceIndex(start, Len(s)) + 1, SliceIndex(end, Len(s)))

FormatAll(selection) == [i \in 1..Len(selection) |-> Format(selection[i])]

paginate_questions(selection, arg) ==
    LET page == PageArg(arg)
        start == PageStart(page)
        end == PageEnd(start)
    IN PySlice(FormatAll(selection), start, end)

----------------------------------------------------------------------------
(* Requests *)

\* body.get(key): None when the key is absent, else the value.  An optional
\* value is [has, v]; v is the empty text or 0 when has is FALSE.
None(v) == [has |-> FALSE, v |-> v]
Some(v) == [has |-> TRUE, v |-> v]

\* Python truthiness of body.get(key): None, '' and 0 are falsy.
NotText(o) == ~o.has \/ Len(o.v) = 0
NotInt(o) == ~o.has \/ o.v = 0

CategoriesDict(cats) ==
    [k \in {cats[i].id : i \in 1..Len(cats)} |->
        (CHOOSE c \in {cats[i] : i \in 1..Len(cats)} : c.id = k).type]

----------------------------------------------------------------------------
(* GET /categories *)

get_categories(cats) ==
    LET categories_dict == CategoriesDict(cats)
    IN IF Cardinality(DOMAIN categories_dict) = 0
       THEN Abort(404)
       ELSE Return([status |-> 200, success |-> TRUE,
                    categories |-> categories_dict])

(* GET /questions *)

NoEmptyPageCheck(current_questions) == FALSE
EmptyPage(current_questions) == Len(current_questions) = 0

get_questions(qs, cats, arg) ==
    LET selection == qs
        total_questions == Len(selection)
        current_questions == paginate_questions(selection, arg)
    IN IF EmptyPage(current_questions)
       THEN Abort(404)
       ELSE Return([status |-> 200, success |-> TRUE,
                    questions |-> current_questions,
                    total_questions |-> total_questions,
                    categories |-> CategoriesDict(cats)])

(* DELETE /questions/<int:id> *)

\* Question.query.filter_by(id=id).one_or_none(): the rows with that id.
OneOrNone(qs, id) == SelectSeq(qs, LAMBDA q : q.id = id)

\* The try block: its outcome and the table it leaves.
delete_try_keeps_row(id, qs) ==
    IF Len(OneOrNone(qs, id)) = 0
    THEN [out |-> Abort(404), questions |-> qs]
    ELSE [out |-> Return([status |-> 200, success |-> TRUE, deleted |-> id]),
          questions |-> qs]
delete_try(id, qs) ==
    IF Len(OneOrNone(qs, id)) = 0
    THEN [out |-> Abort(404), questions |-> qs]
    ELSE [out |-> Return([status |-> 200, success |-> TRUE, deleted |-> id]),
          questions |-> Delete(qs, id)]

\* The bare except: whatever the try block raises, abort(404)'s HTTPException
\* included, is answered with abort(422).
delete_question(id, qs) ==
    LET t == delete_try(id, qs)
    IN IF t.out.kind = "raise"
       THEN [out |-> Abort(422), questions |-> t.questions]
       ELSE t

(* POST /questions *)

post_question_search(body, arg, qs) ==
    LET selection == FilterILike(qs, body.searchTerm.v)
    IN IF Len(selection) = 0
       THEN Abort(404)
       ELSE Return([status |-> 200, success |-> TRUE,
                    questions |-> paginate_questions(selection, arg),
                    total_questions |-> Len(qs)])

AnyNotButCategory(body) ==
    NotText(body.question) \/ NotText(body.answer) \/ NotInt(body.difficulty)
AnyNot(body) ==
    \/ NotText(body.question)
    \/ NotText(body.answer)
    \/ NotInt(body.difficulty)
    \/ NotInt(body.category)

InsertSwapped(body, qs, nid) ==
    Insert(qs, nid, body.answer.v, body.question.v,
           body.difficulty.v, body.category.v)
InsertNew(body, qs, nid) ==
    Insert(qs, nid, body.question.v, body.answer.v,
           body.difficulty.v, body.category.v)

post_question_create(body, arg, qs, nid) ==
    IF AnyNot(body)
    THEN [out |-> Abort(422), questions |-> qs, nextId |-> nid]
    ELSE LET after == InsertNew(body, qs, nid)
             question == after[Len(after)]
             selection == OrderById(after)
             current_questions == paginate_questions(selection, arg)
         IN [out |-> Return([status |-> 200, success |-> TRUE,
                             created |-> question.id,
                             question_created |-> question.question,
                             questions |-> current_questions,
                             total_questions |-> Len(after)]),
             questions |-> after, nextId |-> nid + 1]

post_question(body, arg, qs, nid) ==
    IF ~NotText(body.searchTerm)
    THEN [out |-> post_question_search(body, arg, qs),
          questions |-> qs, nextId |-> nid]
    ELSE post_question_create(body, arg, qs, nid)

(* GET /categories/<int:id>/questions *)

SelectAll(qs, category) == qs
CategorySelection(qs, category) == FilterByCategory(qs, category.id)

get_questions_by_category(id, qs, cats, arg) ==
    LET category == SelectSeq(cats, LAMBDA c : c.id = id)
    IN IF Len(category) = 0
       THEN Abort(400)
       ELSE LET selection == CategorySelection(qs, category[1])
                paginated == paginate_questions(selection, arg)
            IN Return([status |-> 200, success |-> TRUE,
                       questions |-> paginated,
                       total_questions |-> Len(qs),
                       current_category |-> category[1].type])

(* POST /quizzes *)

\* x in previous
InList(x, list) == \E i \in 1..Len(list) : list[i] = x

QuizQuestions(category, qs) ==
    IF category.id = 0 THEN qs ELSE FilterByCategory(qs, category.id)

AllTriedWhenLonger(previous, total) == Len(previous) > total
AllTried(previous, total) == Len(previous) = total

left_unfiltered(previous, qs) == qs
left_questions(previous, qs) ==
    SelectSeq(qs, LAMBDA question : ~InList(question.id, previous))

\* The set of outcomes: random.choice picks any element of the list, and
\* raises IndexError on the empty list.
get_random_quiz_question(body, qs) ==
    IF ~body.previous_questions.has \/ ~body.quiz_category.has
    THEN {Abort(400)}
    ELSE LET previous == body.previous_questions.v
             category == body.quiz_category.v
             qz == QuizQuestions(category, qs)
             total == Len(qz)
         IN IF AllTried(previous, total)
            THEN {Return([status |-> 200, success |-> TRUE])}
            ELSE LET left == left_questions(previous, qz)
                 IN IF Len(left) = 0
                    THEN {Abort(500)}
                    ELSE {Return([status |-> 200, success |-> TRUE,
                                  question |-> Format(left[i])]) :
                             i \in 1..Len(left)}

\* Flask answers a returned value with it, and a raised exception with the
\* error handler of its code (500 for an exception that is no HTTPException).
Dispatch(out) == IF out.kind = "return" THEN out.value ELSE ErrorBody(out.code)

----------------------------------------------------------------------------
(* The inputs the requests are drawn from *)

NoReq == [op |-> "none"]
NoResp == [status |-> 0]

Idle == req.op = "none"

PageArgs == {PageAbsent, PageText} \cup {PageInt(n) : n \in (-1)..MaxPage}

DeleteIds == 0..MaxDelId

NoText == None(<<>>)
NoInt == None(0)

SearchBodies ==
    {[searchTerm |-> Some(t), question |-> NoText, answer |-> NoText,
      difficulty |-> NoInt, category |-> NoInt] : t \in {TermTA, TermX}}

CreateBodies ==
    [searchTerm : {NoText, Some(<<>>)},
     question : {NoText, Some(<<>>), Some(TextTaj)},
     answer : {NoText, Some(<<>>), Some(TextAns)},
     difficulty : {NoInt, Some(0), Some(3)},
     category : {NoInt, Some(0), Some(1), Some(UnknownCategory)}]

PostBodies == SearchBodies \cup CreateBodies

QuizCategories ==
    {[id |-> 0, type |-> "click"], [id |-> UnknownCategory, type |-> "None"]}
    \cup {[id |-> SeedCategories[i].id, type |-> SeedCategories[i].type] :
             i \in 1..Len(SeedCategories)}

PrevLists == UNION {[1..n -> 1..MaxQuizId] : n \in 0..MaxPrev}

QuizBodies ==
    {[previous_questions |-> Some(p), quiz_category |-> Some(c)] :
        p \in PrevLists, c \in QuizCategories}
    \cup {[previous_questions |-> None(<<>>),
           quiz_category |-> Some([id |-> 0, type |-> "click"])],
          [previous_questions |-> Some(<<>>),
           quiz_category |-> None([id |-> 0, type |-> "click"])],
          [previous_questions |-> None(<<>>),
           quiz_category |-> None([id |-> 0, type |-> "click"])]}

\* The ids of S in ascending order.
RECURSIVE Ascending(_)
Ascending(S) ==
    IF S = {} THEN <<>>
    ELSE LET m == CHOOSE x \in S : \A y \in S : x <= y
         IN <<m>> \o Ascending(S \ {m})

\* Every table whose ids are among 1 .. MaxQuizId, each row in any category.
QuizStores ==
    {[k \in 1..Cardinality(S) |->
         [SeedQuestion(Ascending(S)[k]) EXCEPT !.category = c[Ascending(S)[k]]]] :
        S \in SUBSET (1..MaxQuizId), c \in [1..MaxQuizId -> CategoryIds]}

Reverse(s) == [i \in 1..Len(s) |-> s[Len(s) + 1 - i]]

----------------------------------------------------------------------------
(* Initial states *)

Init ==
    /\ questions \in {SeedStore(n) : n \in 0..MaxSeed}
    /\ categories = SeedCategories
    /\ nextId = Len(questions) + 1
    /\ created = 0
    /\ lastCreated = 0
    /\ req = NoReq
    /\ resp = NoResp

InitQuiz ==
    /\ questions \in QuizStores
    /\ categories = SeedCategories
    /\ nextId = MaxQuizId + 1
    /\ created = 0
    /\ lastCreated = 0
    /\ req = NoReq
    /\ resp = NoResp

InitPaginate ==
    /\ questions \in {SeedStore(n) : n \in 0..MaxSeed}
                     \cup {Reverse(SeedStore(n)) : n \in 0..MaxSeed}
    /\ categories = SeedCategories
    /\ nextId = Len(questions) + 1
    /\ created = 0
    /\ lastCreated = 0
    /\ req = NoReq
    /\ resp = NoResp

----------------------------------------------------------------------------
(* Actions: one per request handler *)

GetCategories ==
    /\ Idle
    /\ req' = [op |-> "get_categories"]
    /\ resp' = Dispatch(get_categories(categories))
    /\ UNCHANGED <<questions, categories, nextId, created, lastCreated>>

GetQuestions ==
    /\ Idle
    /\ \E arg \in PageArgs :
        /\ req' = [op |-> "get_questions", page |-> arg]
        /\ resp' = Dispatch(get_questions(questions, categories, arg))
    /\ UNCHANGED <<questions, categories, nextId, created, lastCreated>>

DeleteQuestion ==
    /\ Idle
    /\ \E id \in DeleteIds :
        LET r == delete_question(id, questions)
        IN /\ req' = [op |-> "delete_question", id |-> id]
           /\ resp' = Dispatch(r.out)
           /\ questions' = r.questions
    /\ UNCHANGED <<categories, nextId, created, lastCreated>>

PostQuestion ==
    /\ Idle
    /\ \E body \in PostBodies, arg \in PageArgs :
        LET r == post_question(body, arg, questions, nextId)
            inserted == r.nextId # nextId
        IN /\ inserted => created < MaxCreates
           /\ req' = [op |-> "post_question", body |-> body, page |-> arg]
           /\ resp' = Dispatch(r.out)
           /\ questions' = r.questions
           /\ nextId' = r.nextId
           /\ created' = IF inserted THEN created + 1 ELSE created
           /\ lastCreated' = IF inserted THEN resp'.created ELSE lastCreated
    /\ UNCHANGED categories

GetQuestionsByCategory ==
    /\ Idle
    /\ \E id \in CategoryIds \cup {UnknownCategory}, arg \in PageArgs :
        /\ req' = [op |-> "get_questions_by_category", id |-> id, page |-> arg]
        /\ resp' = Dispatch(get_questions_by_category(id, questions, categories, arg))
    /\ UNCHANGED <<questions, categories, nextId, created, lastCreated>>

GetRandomQuizQuestion ==
    /\ Idle
    /\ \E body \in QuizBodies :
        /\ req' = [op |-> "get_random_quiz_question", body |-> body]
        /\ \E out \in get_random_quiz_question(body, questions) :
              resp' = Dispatch(out)
    /\ UNCHANGED <<questions, categories, nextId, created, lastCreated>>

\* paginate_questions alone, applied to the table as the selection.
Paginate ==
    /\ Idle
    /\ \E arg \in PageArgs :
        /\ req' = [op |-> "paginate_questions", page |-> arg]
        /\ resp' = [status |-> 200, questions |-> paginate_questions(questions, arg)]
    /\ UNCHANGED <<questions, categories, nextId, created, lastCreated>>

\* The response leaves the server, which then accepts the next request.
Deliver ==
    /\ ~Idle
    /\ req' = NoReq
    /\ resp' = NoResp
    /\ UNCHANGED <<questions, categories, nextId, created, lastCreated>>

Next ==
    \/ GetCategories
    \/ GetQuestions
    \/ DeleteQuestion
    \/ PostQuestion
    \/ GetQuestionsByCategory
    \/ Deliver

NextQuiz ==
    \/ GetRandomQuizQuestion
    \/ Deliver

NextPaginate ==
    \/ Paginate
    \/ Deliver

Spec == Init /\ [][Next]_vars

SpecQuiz == InitQuiz /\ [][NextQuiz]_vars

SpecPaginate == InitPaginate /\ [][NextPaginate]_vars

----------------------------------------------------------------------------
(* Vocabulary of the properties *)

Rows(qs) == {qs[i] : i \in 1..Len(qs)}

ListSet(list) == {list[i] : i \in 1..Len(list)}

Distinct(list) == \A i, j \in 1..Len(list) : list[i] = list[j] => i = j

\* The candidate ids of a quiz: every id for selector 0, else the ids of the
\* questions of that category.
CandidateIds(sel, qs) == {q.id : q \in {r \in Rows(qs) : sel = 0 \/ r.category = sel}}

\* The 1-based page a page argument asks for.
AskedPage(arg) == IF arg.kind = "int" THEN arg.n ELSE 1

\* list is the page p (p >= 1, ten to a page) of the sequence all.
IsPageOf(list, all, p) ==
    LET lo == (p - 1) * 10
        n == Min(10, Max(0, Len(all) - lo))
    IN /\ Len(list) = n
       /\ \A i \in 1..n : list[i] = all[lo + i]

AsListed(qs) == [i \in 1..Len(qs) |-> Format(qs[i])]

HasQuestion(r) == "question" \in DOMAIN r

QuizAnswered ==
    /\ req.op = "get_random_quiz_question"
    /\ req.body.previous_questions.has
    /\ req.body.quiz_category.has

QuizPrev == req.body.previous_questions.v
QuizSel == req.body.quiz_category.v.id
QuizCand == CandidateIds(QuizSel, questions)

FalsyText(o) == o = None(<<>>) \/ o = Some(<<>>)
FalsyInt(o) == o = None(0) \/ o = Some(0)

CreateMode(r) == r.op = "post_question" /\ FalsyText(r.body.searchTerm)

SomeFieldFalsy(b) ==
    FalsyText(b.question) \/ FalsyText(b.answer)
        \/ FalsyInt(b.difficulty) \/ FalsyInt(b.category)

\* The position of the question with this id in the listing, 0 if absent.
PositionOf(id, qs) ==
    IF id \in Ids(qs) THEN CHOOSE k \in 1..Len(qs) : qs[k].id = id ELSE 0

Includes(r, id) ==
    /\ r.status = 200
    /\ \E i \in 1..Len(r.questions) : r.questions[i].id = id

----------------------------------------------------------------------------
(* C1: DELETE /questions/<id> for an id that is not in the store is answered
   with the not-found outcome (404, success false, error 404, "Not Found"),
   and the stored questions are unchanged. *)
C1_DeleteUnknownIdNotFound ==
    [][(req'.op = "delete_question" /\ req'.id \notin Ids(questions))
        => (resp' = not_found /\ questions' = questions)]_vars

(* C2: POST /quizzes with previous_questions a proper subset of the candidate
   ids is answered with success and a question whose id is a candidate id not
   in previous_questions; for a non-zero selector the question's category is
   the selector. *)
C2_QuizPicksUnseenCandidate ==
    (/\ QuizAnswered
     /\ Distinct(QuizPrev)
     /\ ListSet(QuizPrev) \subseteq QuizCand
     /\ ListSet(QuizPrev) # QuizCand)
    => /\ resp.status = 200
       /\ resp.success
       /\ HasQuestion(resp)
       /\ resp.question.id \in QuizCand \ ListSet(QuizPrev)
       /\ resp.question \in {Format(q) : q \in Rows(questions)}
       /\ QuizSel # 0 => resp.question.category = QuizSel

C2_Witness ==
    /\ QuizAnswered
    /\ Distinct(QuizPrev)
    /\ Len(QuizPrev) = 2
    /\ ListSet(QuizPrev) \subseteq QuizCand
    /\ ListSet(QuizPrev) # QuizCand
    /\ QuizSel # 0
    /\ HasQuestion(resp)

(* C3: POST /quizzes with previous_questions equal to the candidate id set
   (both empty included) is answered with success and no question field,
   never with an error. *)
C3_QuizExhausted ==
    (QuizAnswered /\ Distinct(QuizPrev) /\ ListSet(QuizPrev) = QuizCand)
    => resp = [status |-> 200, success |-> TRUE]

C3_Witness ==
    /\ QuizAnswered
    /\ QuizPrev = <<>>
    /\ QuizCand = {}
    /\ Len(questions) > 0
    /\ resp = [status |-> 200, success |-> TRUE]

(* C4: for a sequence of L formatted questions and a page p >= 1 (1 when the
   argument is absent or not a number), paginate_questions returns the
   elements at positions (p-1)*10 up to but excluding p*10 in their order:
   min(10, max(0, L-(p-1)*10)) elements, none when p is past the last page. *)
C4_PaginateSlice ==
    (req.op = "paginate_questions" /\ AskedPage(req.page) >= 1)
    => IsPageOf(resp.questions, AsListed(questions), AskedPage(req.page))

C4_Witness ==
    /\ req.op = "paginate_questions"
    /\ AskedPage(req.page) = 2
    /\ Len(questions) > 10
    /\ Len(questions) < 20
    /\ Len(resp.questions) = Len(questions) - 10

(* C5: GET /questions?page=p is answered with not-found exactly when the page
   slice of all stored questions is empty; otherwise it succeeds with that
   slice and total_questions equal to the number of stored questions. *)
C5_GetQuestionsPage ==
    (req.op = "get_questions" /\ AskedPage(req.page) >= 1)
    => IF Len(questions) <= (AskedPage(req.page) - 1) * 10
       THEN resp = not_found
       ELSE /\ resp.status = 200
            /\ resp.success
            /\ Len(resp.questions) > 0
            /\ IsPageOf(resp.questions, AsListed(questions), AskedPage(req.page))
            /\ resp.total_questions = Len(questions)

C5_Witness ==
    /\ req.op = "get_questions"
    /\ AskedPage(req.page) = 2
    /\ resp.status = 200
    /\ resp.total_questions > 10

(* C6: POST /questions in create mode with question, answer, difficulty or
   category missing or falsy is answered with unprocessable (422, success
   false), and the stored questions are the same after as before. *)
C6_CreateMissingFieldUnprocessable ==
    [][(CreateMode(req') /\ SomeFieldFalsy(req'.body))
        => (resp' = unprocessable /\ questions' = questions /\ nextId' = nextId)]_vars

C6_Witness ==
    /\ CreateMode(req)
    /\ ~FalsyText(req.body.question)
    /\ ~FalsyText(req.body.answer)
    /\ ~FalsyInt(req.body.difficulty)
    /\ FalsyInt(req.body.category)
    /\ resp = unprocessable

(* C7, the creation: POST /questions in create mode with all four fields
   truthy succeeds, created is a positive id no stored question had, and the
   store then holds a question with that id and the submitted fields. *)
C7_Created ==
    (CreateMode(req') /\ ~SomeFieldFalsy(req'.body))
    => /\ resp'.status = 200
       /\ resp'.success
       /\ resp'.created > 0
       /\ resp'.created \notin Ids(questions)
       /\ [id |-> resp'.created,
           question |-> req'.body.question.v,
           answer |-> req'.body.answer.v,
           category |-> req'.body.category.v,
           difficulty |-> req'.body.difficulty.v] \in Rows(questions')

(* C7 as stated: the creation, and a subsequent GET /questions includes the
   created question. *)
C7_CreatedThenListed ==
    [][/\ C7_Created
       /\ (/\ req'.op = "get_questions"
           /\ req'.page = PageAbsent
           /\ lastCreated \in Ids(questions))
          => Includes(resp', lastCreated)]_vars

(* C7 as amended: the creation, and a subsequent GET /questions?page=p
   (p >= 1) includes the created question exactly when its position k in the
   listing satisfies (p-1)*10 < k <= p*10. *)
C7_CreatedThenListedOnItsPage ==
    [][/\ C7_Created
       /\ (/\ req'.op = "get_questions"
           /\ AskedPage(req'.page) >= 1
           /\ lastCreated \in Ids(questions))
          => LET p == AskedPage(req'.page)
                 k == PositionOf(lastCreated, questions)
             IN Includes(resp', lastCreated) <=> ((p - 1) * 10 < k /\ k <= p * 10)]_vars

C7_Witness ==
    /\ req.op = "get_questions"
    /\ lastCreated \in Ids(questions)
    /\ PositionOf(lastCreated, questions) > 10
    /\ AskedPage(req.page) = 2
    /\ Includes(resp, lastCreated)

(* C8: DELETE /questions/<id> for a stored id succeeds with deleted = id;
   afterwards no question has that id, and every other question and every
   category is unchanged. *)
C8_DeleteStoredId ==
    [][(req'.op = "delete_question" /\ req'.id \in Ids(questions))
        => /\ resp' = [status |-> 200, success |-> TRUE, deleted |-> req'.id]
           /\ req'.id \notin Ids(questions')
           /\ Rows(questions') = {q \in Rows(questions) : q.id # req'.id}
           /\ Len(questions') = Len(questions) - 1
           /\ categories' = categories]_vars

C8_Witness ==
    /\ req.op = "delete_question"
    /\ resp = [status |-> 200, success |-> TRUE, deleted |-> req.id]
    /\ req.id \notin Ids(questions)
    /\ Len(questions) > 0

(* C9: GET /categories/<id>/questions is answered with bad-request when no
   category has that id; otherwise it succeeds with current_category the
   category's type and questions the page slice of exactly the stored
   questions of that category. *)
C9_QuestionsByCategory ==
    req.op = "get_questions_by_category"
    => IF req.id \notin {categories[i].id : i \in 1..Len(categories)}
       THEN resp = bad_request
       ELSE /\ resp.status = 200
            /\ resp.success
            /\ \E i \in 1..Len(categories) :
                  categories[i].id = req.id /\ resp.current_category = categories[i].type
            /\ \A i \in 1..Len(resp.questions) : resp.questions[i].category = req.id
            /\ AskedPage(req.page) >= 1 =>
                  IsPageOf(resp.questions,
                           SelectSeq(AsListed(questions), LAMBDA q : q.category = req.id),
                           AskedPage(req.page))

C9_Witness ==
    /\ req.op = "get_questions_by_category"
    /\ AskedPage(req.page) = 2
    /\ resp.status = 200
    /\ Len(resp.questions) > 0
    /\ Len(resp.questions) < Len(questions)

(* C10: POST /quizzes with both fields, previous_questions being any list of
   ids: the response is success with a question if and only if the candidate
   set minus previous_questions is non-empty, the question is then an element
   of that difference, and the request never ends in a server error. *)
C10_QuizAnyPreviousList ==
    QuizAnswered
    => /\ resp.status = 200
       /\ resp.success
       /\ HasQuestion(resp) <=> (QuizCand \ ListSet(QuizPrev) # {})
       /\ HasQuestion(resp) => resp.question.id \in QuizCand \ ListSet(QuizPrev)

====
